---- MODULE Spec2Model ----
(***************************************************************************)
(* Course offerings and employee registrations kept in one DynamoDB table  *)
(* (src/src/controllers/courseController.ts, registrationController.ts).   *)
(*                                                                         *)
(* Strings are sequences of characters.  The literals the code writes      *)
(* itself ("OFFERING", "COURSE#", "EMPLOYEE#", "REG#", "METADATA") are     *)
(* single atoms: none of their characters is in the input alphabet, so     *)
(* equality of sequences is equality of the strings they stand for.        *)
(* Dates (DDMMYYYY strings compared at local midnight) are day ordinals.   *)
(***************************************************************************)
EXTENDS Integers, Sequences, FiniteSets, TLC

VARIABLES table, today, req, pre, procs, served

vars == <<table, today, req, pre, procs, served>>

(***************************************************************************)
(* Bounds of the model.                                                    *)
(***************************************************************************)
MaxSeats == 2
MaxDay == 1
MaxCallsEach == 2
MaxNameLen == 3

(***************************************************************************)
(* Strings.                                                                *)
(***************************************************************************)
LowerChars == <<"a", "b", "j", "m", "x", "y", "d", "i", "o">>
UpperChars == <<"A", "B", "J", "M", "X", "Y", "D", "I", "O">>

Letters == {LowerChars[i] : i \in DOMAIN LowerChars}
             \cup {UpperChars[i] : i \in DOMAIN UpperChars}

\* String.prototype.toUpperCase, character by character.
toUpperCase(s) ==
    [n \in DOMAIN s |->
        IF \E i \in DOMAIN LowerChars : LowerChars[i] = s[n]
        THEN UpperChars[CHOOSE i \in DOMAIN LowerChars : LowerChars[i] = s[n]]
        ELSE s[n]]

RECURSIVE trimStart(_)
trimStart(s) ==
    IF Len(s) > 0 /\ Head(s) = " " THEN trimStart(Tail(s)) ELSE s

RECURSIVE trimEnd(_)
trimEnd(s) ==
    IF Len(s) > 0 /\ s[Len(s)] = " " THEN trimEnd(SubSeq(s, 1, Len(s) - 1)) ELSE s

\* String.prototype.trim
trim(s) == trimEnd(trimStart(s))

\* String.prototype.split('-'): the hyphen-delimited segments, empty ones kept.
RECURSIVE split(_)
split(s) ==
    IF \E i \in DOMAIN s : s[i] = "-"
    THEN LET i == CHOOSE k \in DOMAIN s :
                     s[k] = "-" /\ \A l \in 1..(k - 1) : s[l] # "-"
         IN  <<SubSeq(s, 1, i - 1)>> \o split(SubSeq(s, i + 1, Len(s)))
    ELSE <<s>>

\* Array.prototype.join('-')
RECURSIVE join(_)
join(parts) ==
    IF Len(parts) = 0 THEN <<>>
    ELSE IF Len(parts) = 1 THEN parts[1]
    ELSE parts[1] \o <<"-">> \o join(Tail(parts))

\* Array.prototype.slice(1)
slice1(parts) == IF Len(parts) = 0 THEN <<>> ELSE Tail(parts)

startsWith(s, prefix) ==
    Len(s) >= Len(prefix) /\ SubSeq(s, 1, Len(prefix)) = prefix

(***************************************************************************)
(* Identifier derivation (src/src/utils/helpers.ts).                       *)
(***************************************************************************)
generateCourseId(courseName, instructorName) ==
    <<"OFFERING", "-">> \o toUpperCase(courseName) \o <<"-">>
        \o toUpperCase(instructorName)

generateRegistrationId(employeeName, courseId) ==
    toUpperCase(employeeName) \o <<"-">> \o courseId

extractCourseIdFromRegistration(registrationId) ==
    join(slice1(split(registrationId)))

(***************************************************************************)
(* Validators (src/unnamed/part_003).                                      *)
(***************************************************************************)
sanitizeInput(input) == IF Len(input) = 0 THEN <<>> ELSE trim(input)

isEmptyAfterTrim(input) == Len(sanitizeInput(input)) = 0

\* /^[a-zA-Z0-9._-]+@[a-zA-Z0-9.-]+\.[a-zA-Z]{2,}$/ on the trimmed string
isValidEmail(email) ==
    /\ Len(email) > 0
    /\ LET e == trim(email)
       IN  \E at \in DOMAIN e : \E dot \in DOMAIN e :
             /\ e[at] = "@" /\ e[dot] = "."
             /\ 1 < at /\ at + 1 < dot /\ dot + 2 <= Len(e)
             /\ \A n \in 1..(at - 1) : e[n] \in Letters \cup {".", "_", "-"}
             /\ \A n \in (at + 1)..(dot - 1) : e[n] \in Letters \cup {".", "-"}
             /\ \A n \in (dot + 1)..Len(e) : e[n] \in Letters

isValidRegistrationIdFormat(registrationId) ==
    /\ Len(registrationId) > 0
    /\ LET parts == split(trim(registrationId))
       IN  /\ Len(parts) >= 4
           /\ parts[2] = <<"OFFERING">>
           /\ \A n \in DOMAIN parts : Len(parts[n]) > 0

isValidCourseIdFormat(courseId) ==
    /\ Len(courseId) > 0
    /\ LET trimmed == trim(courseId)
           parts == split(trimmed)
       IN  /\ startsWith(trimmed, <<"OFFERING", "-">>)
           /\ Len(parts) >= 3
           /\ \A n \in DOMAIN parts : Len(parts[n]) > 0

(***************************************************************************)
(* The table: a function from the keys present, <<PK, SK>>, to items.      *)
(***************************************************************************)
METADATA == <<"METADATA">>

CoursePK(course_id) == <<"COURSE#">> \o course_id
RegSK(registration_id) == <<"REG#">> \o registration_id
EmployeePK(email) == <<"EMPLOYEE#">> \o toUpperCase(email)
CourseSK(course_id) == <<"COURSE#">> \o course_id

CourseKey(course_id) == <<CoursePK(course_id), METADATA>>
RegKey(course_id, registration_id) == <<CoursePK(course_id), RegSK(registration_id)>>
EmployeeKey(email, course_id) == <<EmployeePK(email), CourseSK(course_id)>>

EmptyTable == [k \in {} |-> {}]

\* GetCommand: the item at the key, or none
HasItem(t, key) == key \in DOMAIN t

\* PutCommand / Put: creates the item or replaces it whole
PutItem(t, key, item) ==
    [k \in DOMAIN t \cup {key} |-> IF k = key THEN item ELSE t[k]]

\* Delete: removes the item if it is there
DeleteItem(t, key) == [k \in DOMAIN t \ {key} |-> t[k]]

\* QueryCommand PK = :pk AND begins_with(SK, "REG#")
QueryRegistrations(t, course_id) ==
    {t[k] : k \in {q \in DOMAIN t :
                     q[1] = CoursePK(course_id) /\ startsWith(q[2], <<"REG#">>)}}

\* An attribute of an item, or the default when the item does not carry it
Attr(item, name, default) ==
    IF name \in DOMAIN item THEN item[name] ELSE default

\* Update ... SET: sets the attributes on the item, creating the item when the
\* key is absent (no ConditionExpression is given anywhere in the code)
UpdateSet(t, key, attrs) ==
    PutItem(t, key, IF HasItem(t, key) THEN attrs @@ t[key] ELSE attrs)

\* Update ... ADD current_count :n
UpdateAddCount(t, key, n) ==
    LET old == IF HasItem(t, key) THEN Attr(t[key], "current_count", 0) ELSE 0
    IN  UpdateSet(t, key, [current_count |-> old + n])

(***************************************************************************)
(* Requests and responses.  A request record holds the handler's           *)
(* arguments, its position (pc), its local variables and, once pc is       *)
(* "done", the one response it sent (res, reads and writes are the store   *)
(* calls it issued).                                                       *)
(***************************************************************************)
Idle == [op |-> "none", pc |-> "idle"]

NewRequest(op, args) ==
    [op |-> op, pc |-> "start", reads |-> 0, writes |-> 0] @@ args

Set(r, fields) == fields @@ r

\* res.status(s).json({status, message, data}) followed by return
Respond(r, status, message, data) ==
    Set(r, [pc |-> "done",
            res |-> [status |-> status, message |-> message, data |-> data]])

Failure == [kind |-> "failure"]

\* Variant: the validation made after the first read of the store
ValidationFailureAfterRead(r) ==
    Respond(Set(r, [reads |-> r.reads + 1]), 400, "INPUT_DATA_ERROR", Failure)

\* A failed validation: res.status(400) with message INPUT_DATA_ERROR, return
ValidationFailure(r) == Respond(r, 400, "INPUT_DATA_ERROR", Failure)

\* Variant: an absent row answered as a bad request
NotFoundAsBadRequest(r, message) == Respond(r, 400, message, Failure)

\* An absent row: res.status(404), return
NotFound(r, message) == Respond(r, 404, message, Failure)

Outcome(r, t) == [req |-> r, table |-> t]

(***************************************************************************)
(* addCourseOffering (src/src/controllers/courseController.ts 279-439).    *)
(***************************************************************************)
\* Variant: the comparison of the two seat numbers reversed
AddCourseSeatsInvalidReversed(r) == r.max_employees > r.min_employees

\* if (min_employees > max_employees)
AddCourseSeatsInvalid(r) == r.min_employees > r.max_employees

\* The checks of lines 284-357 all pass (start_date is a day number, so the
\* format check of line 344 has nothing to refuse)
AddCourseFieldsValid(r) ==
    /\ ~(Len(r.course_name) = 0 \/ Len(r.instructor_name) = 0)
    /\ ~(isEmptyAfterTrim(r.course_name) \/ isEmptyAfterTrim(r.instructor_name))
    /\ ~(r.min_employees < 0 \/ r.max_employees < 0)
    /\ ~AddCourseSeatsInvalid(r)

\* if (courseStartDate < currentDate), both at midnight
AddCourseStartDatePast(r, currentDate) == r.start_date < currentDate

\* Variant: the lookup keyed by the names as typed, not upper-cased
AddCourseLookupKeyAsTyped(r) ==
    CourseKey(<<"OFFERING", "-">> \o sanitizeInput(r.course_name) \o <<"-">>
                  \o sanitizeInput(r.instructor_name))

\* Key of the duplicate lookup: COURSE#<course_id>, METADATA
AddCourseLookupKey(r) ==
    CourseKey(generateCourseId(sanitizeInput(r.course_name),
                               sanitizeInput(r.instructor_name)))

AddCourseStart(r, t, now) ==
    LET course_id == generateCourseId(sanitizeInput(r.course_name),
                                      sanitizeInput(r.instructor_name))
        r0 == Set(r, [currentDate |-> now])
    IN  IF ~AddCourseFieldsValid(r)
        THEN Outcome(ValidationFailure(r), t)
        ELSE IF AddCourseStartDatePast(r, now)
        THEN Outcome(ValidationFailure(r0), t)
        ELSE IF HasItem(t, AddCourseLookupKey(r))
        THEN Outcome(Respond(Set(r0, [reads |-> r.reads + 1]),
                             400, "DUPLICATE_COURSE_ERROR", Failure), t)
        ELSE Outcome(Set(r0, [pc |-> "put", reads |-> r.reads + 1,
                              course_id |-> course_id]), t)

AddCoursePut(r, t) ==
    Outcome(Respond(Set(r, [writes |-> r.writes + 1]),
                    200, "course added successfully",
                    [kind |-> "success", course_id |-> r.course_id]),
            PutItem(t, CourseKey(r.course_id),
                    [course_id |-> r.course_id,
                     course_name |-> sanitizeInput(r.course_name),
                     instructor_name |-> sanitizeInput(r.instructor_name),
                     start_date |-> r.start_date,
                     min_employees |-> r.min_employees,
                     max_employees |-> r.max_employees,
                     current_count |-> 0,
                     is_allotted |-> FALSE,
                     entity_type |-> "COURSE"]))

(***************************************************************************)
(* registerForCourse (src/src/controllers/registrationController.ts        *)
(* 18-239): validation and the course read with its checks, the employee   *)
(* row read with the duplicate and capacity checks, the transaction.       *)
(***************************************************************************)
\* The four validation checks of lines 23-81 all pass
RegisterInputValid(r) ==
    /\ ~(Len(r.employee_name) = 0 \/ Len(r.email) = 0 \/ Len(r.course_id) = 0)
    /\ ~(isEmptyAfterTrim(r.employee_name) \/ isEmptyAfterTrim(r.email))
    /\ isValidEmail(sanitizeInput(r.email))
    /\ isValidCourseIdFormat(r.course_id)

RegisterStart(r, t) ==
    IF ~RegisterInputValid(r)
    THEN Outcome(ValidationFailure(r), t)
    ELSE LET r1 == Set(r, [reads |-> r.reads + 1])
         IN  IF ~HasItem(t, CourseKey(r.course_id))
             THEN Outcome(NotFound(r1, "Course not found"), t)
             ELSE LET course == t[CourseKey(r.course_id)]
                  IN  IF Attr(course, "course_status", "undefined") = "COURSE_CANCELED"
                      THEN Outcome(Respond(r1, 400, "Course canceled", Failure), t)
                      ELSE IF Attr(course, "is_allotted", FALSE)
                      THEN Outcome(Respond(r1, 400, "Course already allotted", Failure), t)
                      ELSE Outcome(Set(r1, [pc |-> "getEmployee", course |-> course]), t)

\* Variant: the lookup keyed by the email as typed, not upper-cased
RegisterDuplicateKeyCaseSensitive(r) ==
    <<<<"EMPLOYEE#">> \o sanitizeInput(r.email), CourseSK(r.course_id)>>

\* Key of the duplicate lookup: EMPLOYEE#<EMAIL upper-cased>, COURSE#<course_id>
RegisterDuplicateKey(r) == EmployeeKey(sanitizeInput(r.email), r.course_id)

\* Variant: > in place of >=
RegisterIsFullOffByOne(course) ==
    Attr(course, "current_count", 0) > Attr(course, "max_employees", 0)

\* course.current_count >= course.max_employees
RegisterIsFull(course) ==
    Attr(course, "current_count", 0) >= Attr(course, "max_employees", 0)

\* Variant: the capacity check made before the duplicate check
RegisterGetEmployeeFullFirst(r, t) ==
    LET r1 == Set(r, [reads |-> r.reads + 1])
    IN  IF RegisterIsFull(r.course)
        THEN Outcome(Respond(r1, 400, "COURSE_FULL_ERROR", Failure), t)
        ELSE IF HasItem(t, RegisterDuplicateKey(r))
        THEN Outcome(Respond(r1, 400, "Already registered", Failure), t)
        ELSE Outcome(Set(r1, [pc |-> "write",
                              registration_id |->
                                  generateRegistrationId(sanitizeInput(r.employee_name),
                                                         r.course_id)]), t)

RegisterGetEmployee(r, t) ==
    LET r1 == Set(r, [reads |-> r.reads + 1])
    IN  IF HasItem(t, RegisterDuplicateKey(r))
        THEN Outcome(Respond(r1, 400, "Already registered", Failure), t)
        ELSE IF RegisterIsFull(r.course)
        THEN Outcome(Respond(r1, 400, "COURSE_FULL_ERROR", Failure), t)
        ELSE Outcome(Set(r1, [pc |-> "write",
                              registration_id |->
                                  generateRegistrationId(sanitizeInput(r.employee_name),
                                                         r.course_id)]), t)

\* TransactWriteCommand: two puts and the counter increment, applied together
\* (created_at, a wall-clock timestamp no handler reads, is left out)
RegisterTransaction(r, t) ==
    LET byCourse == [registration_id |-> r.registration_id,
                     employee_name |-> sanitizeInput(r.employee_name),
                     email |-> sanitizeInput(r.email),
                     course_id |-> r.course_id,
                     status |-> "ACCEPTED",
                     entity_type |-> "REGISTRATION"]
        byEmployee == [registration_id |-> r.registration_id,
                       employee_name |-> sanitizeInput(r.employee_name),
                       course_id |-> r.course_id,
                       status |-> "ACCEPTED",
                       entity_type |-> "EMPLOYEE_COURSE"]
        t1 == PutItem(t, RegKey(r.course_id, r.registration_id), byCourse)
        t2 == PutItem(t1, EmployeeKey(sanitizeInput(r.email), r.course_id), byEmployee)
    IN  UpdateAddCount(t2, CourseKey(r.course_id), 1)

\* Variant: the transaction conditioned on a free seat at the time of the write
RegisterWriteIfSeatFree(r, t) ==
    IF RegisterIsFull(t[CourseKey(r.course_id)])
    THEN Outcome(Respond(Set(r, [writes |-> r.writes + 1]),
                         500, "Error registering for course", Failure), t)
    ELSE Outcome(Respond(Set(r, [writes |-> r.writes + 1]),
                         200, "successfully registered",
                         [kind |-> "success",
                          registration_id |-> r.registration_id,
                          status |-> "ACCEPTED"]),
                 RegisterTransaction(r, t))

\* Variant: the puts conditioned on the absence of the by-employee row
RegisterWriteIfAbsent(r, t) ==
    IF HasItem(t, RegisterDuplicateKey(r))
    THEN Outcome(Respond(Set(r, [writes |-> r.writes + 1]),
                         500, "Error registering for course", Failure), t)
    ELSE Outcome(Respond(Set(r, [writes |-> r.writes + 1]),
                         200, "successfully registered",
                         [kind |-> "success",
                          registration_id |-> r.registration_id,
                          status |-> "ACCEPTED"]),
                 RegisterTransaction(r, t))

RegisterWrite(r, t) ==
    Outcome(Respond(Set(r, [writes |-> r.writes + 1]),
                    200, "successfully registered",
                    [kind |-> "success",
                     registration_id |-> r.registration_id,
                     status |-> "ACCEPTED"]),
            RegisterTransaction(r, t))

(***************************************************************************)
(* cancelRegistration (registrationController.ts 248-401).                 *)
(***************************************************************************)
CancelStart(r, t) ==
    IF Len(r.registration_id) = 0 \/ ~isValidRegistrationIdFormat(r.registration_id)
    THEN Outcome(ValidationFailure(r), t)
    ELSE LET course_id == extractCourseIdFromRegistration(r.registration_id)
             r1 == Set(r, [reads |-> r.reads + 1, course_id |-> course_id])
         IN  IF ~HasItem(t, RegKey(course_id, r.registration_id))
             THEN Outcome(NotFound(r1, "Registration not found"), t)
             ELSE Outcome(Set(r1, [pc |-> "getCourse",
                                   registration |->
                                       t[RegKey(course_id, r.registration_id)]]), t)

CancelRejected(r) ==
    [kind |-> "success", registration_id |-> r.registration_id,
     course_id |-> r.course_id, status |-> "CANCEL_REJECTED"]

\* if (course.is_allotted)
CancelAlreadyAllotted(course) == Attr(course, "is_allotted", FALSE)

CancelGetCourse(r, t) ==
    LET r1 == Set(r, [reads |-> r.reads + 1])
    IN  IF ~HasItem(t, CourseKey(r.course_id))
        THEN Outcome(NotFound(r1, "Course not found"), t)
        ELSE IF CancelAlreadyAllotted(t[CourseKey(r.course_id)])
        THEN Outcome(Respond(r1, 200, "Cancel registration unsuccessful",
                             CancelRejected(r)), t)
        ELSE Outcome(Set(r1, [pc |-> "write"]), t)

\* TransactWriteCommand: two deletes and the counter decrement
CancelTransaction(r, t) ==
    LET t1 == DeleteItem(t, RegKey(r.course_id, r.registration_id))
        t2 == DeleteItem(t1, EmployeeKey(Attr(r.registration, "email", <<>>),
                                         r.course_id))
    IN  UpdateAddCount(t2, CourseKey(r.course_id), -1)

\* registration.email.toUpperCase() throws on an item without email: the catch
\* block answers 500 and nothing is written
CancelWrite(r, t) ==
    IF "email" \notin DOMAIN r.registration
    THEN Outcome(Respond(r, 500, "Error canceling registration", Failure), t)
    ELSE
    Outcome(Respond(Set(r, [writes |-> r.writes + 1]),
                    200, "Cancel registration successful",
                    [kind |-> "success", registration_id |-> r.registration_id,
                     course_id |-> r.course_id, status |-> "CANCEL_ACCEPTED"]),
            CancelTransaction(r, t))

(***************************************************************************)
(* sortByRegistrationId (src/src/utils/helpers.ts 20-22): Array.sort with  *)
(* localeCompare.  Strings are compared by the primary collation weights   *)
(* of their characters (punctuation before letters, case ignored).         *)
(***************************************************************************)
Collation == <<" ", "_", "-", ".", "@", "#", "A", "B", "D", "E", "F", "G",
               "I", "J", "M", "N", "O", "R", "X", "Y">>

RECURSIVE Characters(_)
Characters(s) ==
    IF Len(s) = 0 THEN <<>>
    ELSE (IF Head(s) = "OFFERING"
          THEN <<"O", "F", "F", "E", "R", "I", "N", "G">>
          ELSE toUpperCase(<<Head(s)>>)) \o Characters(Tail(s))

Weight(c) ==
    IF \E i \in DOMAIN Collation : Collation[i] = c
    THEN CHOOSE i \in DOMAIN Collation : Collation[i] = c
    ELSE 0

RECURSIVE WeightsBefore(_, _)
WeightsBefore(a, b) ==
    IF Len(b) = 0 THEN FALSE
    ELSE IF Len(a) = 0 THEN TRUE
    ELSE IF Weight(Head(a)) # Weight(Head(b)) THEN Weight(Head(a)) < Weight(Head(b))
    ELSE WeightsBefore(Tail(a), Tail(b))

\* a.localeCompare(b) < 0
localeCompareBefore(a, b) == WeightsBefore(Characters(a), Characters(b))

\* Variant: the comparison of the sort reversed
RECURSIVE InsertSortedDescending(_, _)
InsertSortedDescending(item, sorted) ==
    IF Len(sorted) = 0 THEN <<item>>
    ELSE IF localeCompareBefore(Head(sorted).registration_id, item.registration_id)
    THEN <<item>> \o sorted
    ELSE <<Head(sorted)>> \o InsertSortedDescending(item, Tail(sorted))

RECURSIVE InsertSorted(_, _)
InsertSorted(item, sorted) ==
    IF Len(sorted) = 0 THEN <<item>>
    ELSE IF localeCompareBefore(item.registration_id, Head(sorted).registration_id)
    THEN <<item>> \o sorted
    ELSE <<Head(sorted)>> \o InsertSorted(item, Tail(sorted))

RECURSIVE sortByRegistrationId(_)
sortByRegistrationId(items) ==
    IF items = {} THEN <<>>
    ELSE LET item == CHOOSE i \in items : TRUE
         IN  InsertSorted(item, sortByRegistrationId(items \ {item}))

(***************************************************************************)
(* allotCourse (src/src/controllers/courseController.ts 448-646).          *)
(***************************************************************************)
\* Variant: >= in place of >
AllotStartDateReached(course, currentDate) ==
    "start_date" \in DOMAIN course /\ currentDate >= course.start_date

\* currentDate > courseStartDate, both at midnight
AllotStartDatePassed(course, currentDate) ==
    "start_date" \in DOMAIN course /\ currentDate > course.start_date

\* Variant: the check made on course_status = CONFIRMED
AllotAlreadyAllottedByStatus(course) ==
    Attr(course, "course_status", "undefined") = "CONFIRMED"

\* if (course.is_allotted)
AllotAlreadyAllotted(course) == Attr(course, "is_allotted", FALSE)

AllotStart(r, t, now) ==
    IF Len(r.course_id) = 0 \/ ~isValidCourseIdFormat(r.course_id)
    THEN Outcome(ValidationFailure(r), t)
    ELSE LET r1 == Set(r, [reads |-> r.reads + 1, currentDate |-> now])
         IN  IF ~HasItem(t, CourseKey(r.course_id))
             THEN Outcome(NotFound(r1, "Course not found"), t)
             ELSE LET course == t[CourseKey(r.course_id)]
                  IN  IF AllotStartDatePassed(course, now)
                      THEN Outcome(Respond(r1, 400, "COURSE_ALLOT_DATE_ERROR", Failure), t)
                      ELSE IF AllotAlreadyAllotted(course)
                      THEN Outcome(Respond(r1, 400, "Course already allotted", Failure), t)
                      ELSE Outcome(Set(r1, [pc |-> "query", course |-> course]), t)

\* registrations.length >= course.min_employees ? CONFIRMED : COURSE_CANCELED
AllotFinalStatus(registrations, course) ==
    IF Cardinality(registrations) >= Attr(course, "min_employees", 0)
    THEN "CONFIRMED"
    ELSE "COURSE_CANCELED"

AllotQuery(r, t) ==
    LET registrations == QueryRegistrations(t, r.course_id)
    IN  Outcome(Set(r, [pc |-> "write", reads |-> r.reads + 1,
                        registrations |-> registrations,
                        finalStatus |-> AllotFinalStatus(registrations, r.course)]), t)

\* Variant: the partition key built from the course name
AllotRegKeyByCourseName(r, reg) ==
    <<CoursePK(Attr(r.course, "course_name", <<"undefined">>)),
      RegSK(Attr(reg, "registration_id", <<"undefined">>))>>

\* `REG#${reg.registration_id}` of an item read by the query
AllotRegKey(r, reg) ==
    RegKey(r.course_id, Attr(reg, "registration_id", <<"undefined">>))

RECURSIVE AllotUpdateRegistrations(_, _, _)
AllotUpdateRegistrations(r, t, regs) ==
    IF regs = {} THEN t
    ELSE LET reg == CHOOSE x \in regs : TRUE
         IN  AllotUpdateRegistrations(
                 r, UpdateSet(t, AllotRegKey(r, reg), [status |-> r.finalStatus]),
                 regs \ {reg})

\* Variant: finalStatus written in both branches
AllotCourseStatusFinal(r) == r.finalStatus

\* The status written to the course row: finalStatus in the transaction, the
\* literal COURSE_CANCELED in the single update of the no-registration branch
AllotCourseStatus(r) ==
    IF Cardinality(r.registrations) > 0 THEN r.finalStatus ELSE "COURSE_CANCELED"

\* TransactWriteCommand (registrations present) or UpdateCommand (none)
\* Variant: the count of the course row set to the number of rows read
AllotCourseUpdateWithCount(r) ==
    [is_allotted |-> TRUE, course_status |-> AllotCourseStatus(r),
     current_count |-> Cardinality(r.registrations)]

\* SET is_allotted = :allotted, course_status = :status
AllotCourseUpdate(r) ==
    [is_allotted |-> TRUE, course_status |-> AllotCourseStatus(r)]

AllotTransaction(r, t) ==
    UpdateSet(AllotUpdateRegistrations(r, t, r.registrations),
              CourseKey(r.course_id), AllotCourseUpdate(r))

AllotEntry(r, reg) ==
    [registration_id |-> Attr(reg, "registration_id", <<"undefined">>),
     email |-> Attr(reg, "email", <<"undefined">>),
     course_name |-> Attr(r.course, "course_name", <<"undefined">>),
     course_id |-> r.course_id,
     status |-> r.finalStatus]

AllotMessage(r) ==
    IF r.finalStatus = "COURSE_CANCELED"
    THEN "Course canceled - minimum registrations not met"
    ELSE "successfully allotted course to registered employees"

\* The write, then the response; the comparator of the sort throws on an entry
\* without registration_id once two entries are compared (answered 500 after
\* the write was committed)
AllotWrite(r, t) ==
    LET r1 == Set(r, [writes |-> r.writes + 1])
        t1 == AllotTransaction(r, t)
    IN  IF /\ Cardinality(r.registrations) >= 2
           /\ \E reg \in r.registrations : "registration_id" \notin DOMAIN reg
        THEN Outcome(Respond(r1, 500, "Error allotting course", Failure), t1)
        ELSE Outcome(Respond(r1, 200, AllotMessage(r),
                             [kind |-> "success",
                              registrations |->
                                  sortByRegistrationId(
                                      {AllotEntry(r, reg) : reg \in r.registrations})]),
                     t1)

(***************************************************************************)
(* getCourseRegistrations (registrationController.ts 410-563).  The        *)
(* registrations of the response are taken as a set: the order in which    *)
(* the query returns them is not modelled (created_at is left out, as in   *)
(* the rows).                                                              *)
(***************************************************************************)
ListStart(r, t) ==
    IF Len(r.course_id) = 0 \/ ~isValidCourseIdFormat(r.course_id)
    THEN Outcome(ValidationFailure(r), t)
    ELSE LET r1 == Set(r, [reads |-> r.reads + 1])
         IN  IF ~HasItem(t, CourseKey(r.course_id))
             THEN Outcome(NotFound(r1, "Course not found"), t)
             ELSE Outcome(Set(r1, [pc |-> "query",
                                   course |-> t[CourseKey(r.course_id)]]), t)

ListEntry(reg) ==
    [registration_id |-> Attr(reg, "registration_id", <<"undefined">>),
     employee_name |-> Attr(reg, "employee_name", <<"undefined">>),
     email |-> Attr(reg, "email", <<"undefined">>),
     status |-> Attr(reg, "status", "undefined")]

ListData(r, course_status, is_allotted, registrations) ==
    [kind |-> "success", course_id |-> r.course_id,
     course_status |-> course_status, is_allotted |-> is_allotted,
     registrations |-> {ListEntry(reg) : reg \in registrations}]

\* Variant: the empty case tested before the canceled case
ListQueryEmptyFirst(r, t) ==
    LET registrations == QueryRegistrations(t, r.course_id)
        r1 == Set(r, [reads |-> r.reads + 1])
        course_status == Attr(r.course, "course_status", "undefined")
        is_allotted == Attr(r.course, "is_allotted", FALSE)
    IN  IF registrations = {}
        THEN Outcome(Respond(r1, 200, "No registrations found for this course",
                             ListData(r, course_status, is_allotted, {})), t)
        ELSE IF course_status = "COURSE_CANCELED"
        THEN Outcome(Respond(r1, 200, "Course is canceled",
                             ListData(r, "COURSE_CANCELED", is_allotted,
                                      registrations)), t)
        ELSE IF is_allotted
        THEN Outcome(Respond(r1, 200, "Course is allotted",
                             ListData(r, course_status, TRUE, registrations)), t)
        ELSE Outcome(Respond(r1, 200, "Course is not allotted yet",
                             ListData(r, course_status, FALSE, registrations)), t)

ListQuery(r, t) ==
    LET registrations == QueryRegistrations(t, r.course_id)
        r1 == Set(r, [reads |-> r.reads + 1])
        course_status == Attr(r.course, "course_status", "undefined")
        is_allotted == Attr(r.course, "is_allotted", FALSE)
    IN  IF course_status = "COURSE_CANCELED"
        THEN Outcome(Respond(r1, 200, "Course is canceled",
                             ListData(r, "COURSE_CANCELED", is_allotted,
                                      registrations)), t)
        ELSE IF registrations = {}
        THEN Outcome(Respond(r1, 200, "No registrations found for this course",
                             ListData(r, course_status, is_allotted, {})), t)
        ELSE IF is_allotted
        THEN Outcome(Respond(r1, 200, "Course is allotted",
                             ListData(r, course_status, TRUE, registrations)), t)
        ELSE Outcome(Respond(r1, 200, "Course is not allotted yet",
                             ListData(r, course_status, FALSE, registrations)), t)

(***************************************************************************)
(* One step of a handler: the code up to and including its next store      *)
(* call.  Run is the handler run to its response with no other request     *)
(* in between.                                                             *)
(***************************************************************************)
HandlerStep(r, t, now) ==
    CASE r.op = "addCourseOffering" /\ r.pc = "start" -> AddCourseStart(r, t, now)
      [] r.op = "addCourseOffering" /\ r.pc = "put" -> AddCoursePut(r, t)
      [] r.op = "registerForCourse" /\ r.pc = "start" -> RegisterStart(r, t)
      [] r.op = "registerForCourse" /\ r.pc = "getEmployee" -> RegisterGetEmployee(r, t)
      [] r.op = "registerForCourse" /\ r.pc = "write" -> RegisterWrite(r, t)
      [] r.op = "cancelRegistration" /\ r.pc = "start" -> CancelStart(r, t)
      [] r.op = "cancelRegistration" /\ r.pc = "getCourse" -> CancelGetCourse(r, t)
      [] r.op = "cancelRegistration" /\ r.pc = "write" -> CancelWrite(r, t)
      [] r.op = "allotCourse" /\ r.pc = "start" -> AllotStart(r, t, now)
      [] r.op = "allotCourse" /\ r.pc = "query" -> AllotQuery(r, t)
      [] r.op = "allotCourse" /\ r.pc = "write" -> AllotWrite(r, t)
      [] r.op = "getCourseRegistrations" /\ r.pc = "start" -> ListStart(r, t)
      [] r.op = "getCourseRegistrations" /\ r.pc = "query" -> ListQuery(r, t)

(***************************************************************************)
(* A store call the store refuses: ddbDocClient.send throws, the catch     *)
(* block of the handler calls handleControllerError                        *)
(* (src/src/constants/errorMessages.ts 138-148), which answers 500.        *)
(* failAt, when a request carries it, is the number of the store call of   *)
(* that request which the store refuses (0: none).                         *)
(***************************************************************************)
MaxStoreCalls == 3

ErrorContext(op) ==
    CASE op = "addCourseOffering" -> "Error adding course"
      [] op = "registerForCourse" -> "Error registering for course"
      [] op = "cancelRegistration" -> "Error canceling registration"
      [] op = "allotCourse" -> "Error allotting course"
      [] op = "getCourseRegistrations" -> "Error fetching course registrations"

\* Variant: the error logged and no response sent
handleControllerErrorSilent(r) == Set(r, [pc |-> "done"])

handleControllerError(r) == Respond(r, 500, ErrorContext(r.op), Failure)

\* The step o of request r issued the store call that the store refuses
StoreRefuses(r, o) ==
    /\ "failAt" \in DOMAIN r
    /\ r.failAt = r.reads + r.writes + 1
    /\ o.req.reads + o.req.writes > r.reads + r.writes

\* Variant: the refused call sent again and accepted
StoreRefusalRetried(r, o, t) == o

\* The refused call changed nothing and returned nothing to the handler
StoreRefusal(r, o, t) ==
    Outcome(handleControllerError(Set(r, [reads |-> o.req.reads,
                                          writes |-> o.req.writes])), t)

Step(r, t, now) ==
    LET o == HandlerStep(r, t, now)
    IN  IF StoreRefuses(r, o) THEN StoreRefusal(r, o, t) ELSE o

RECURSIVE Run(_, _, _)
Run(r, t, now) ==
    IF r.pc = "done" THEN Outcome(r, t)
    ELSE LET o == Step(r, t, now) IN Run(o.req, o.table, now)

(***************************************************************************)
(* Inputs: the arguments of the calls.                                     *)
(***************************************************************************)
CourseNameInputs == {<<"j">>}
InstructorNameInputs == {<<"m">>}
EmployeeNameInputs == {<<"a">>, <<"a", "-", "b">>}
EmailInputs == {<<"x", "@", "d", ".", "i", "o">>,
                <<"X", "@", "d", ".", "i", "o">>,
                <<"y", "@", "d", ".", "i", "o">>}
CourseIds == {generateCourseId(c, i) :
                c \in CourseNameInputs, i \in InstructorNameInputs}
RegistrationIds ==
    {generateRegistrationId(n, c) : n \in EmployeeNameInputs, c \in CourseIds}

AddCourseInputs ==
    [course_name : CourseNameInputs, instructor_name : InstructorNameInputs,
     start_date : 0..MaxDay, min_employees : {0, MaxSeats},
     max_employees : 0..MaxSeats]
      \cup {[course_name |-> <<" ">>, instructor_name |-> <<"m">>,
             start_date |-> MaxDay, min_employees |-> 0, max_employees |-> 0],
            [course_name |-> <<"j">>, instructor_name |-> <<"m">>,
             start_date |-> MaxDay, min_employees |-> -1, max_employees |-> 0]}

RegisterInputs ==
    [course_id : CourseIds, employee_name : EmployeeNameInputs, email : EmailInputs]
      \cup {[course_id |-> <<"j">>, employee_name |-> <<"a">>,
             email |-> <<"x", "@", "d", ".", "i", "o">>]}
      \cup {[course_id |-> c, employee_name |-> <<"a">>, email |-> <<"x">>] :
                c \in CourseIds}

CancelInputs == [registration_id : RegistrationIds]

AllotInputs == [course_id : CourseIds \cup {<<"j">>}]

ListInputs == [course_id : CourseIds \cup {<<"j">>}]

\* The requests in flight at once
Procs == {"p1", "p2"}

(***************************************************************************)
(* Calls run one at a time: each action is one whole call.  pre is the     *)
(* table as the call found it, req the call with its response.             *)
(***************************************************************************)
Init ==
    /\ table = EmptyTable
    /\ today = 0
    /\ req = Idle
    /\ pre = EmptyTable
    /\ procs = [p \in Procs |-> Idle]
    /\ served = [p \in Procs |-> 0]

addCourseOffering ==
    \E args \in AddCourseInputs :
        LET o == Run(NewRequest("addCourseOffering", args), table, today)
        IN  /\ table' = o.table
            /\ req' = o.req
            /\ pre' = table
            /\ UNCHANGED <<today, procs, served>>

registerForCourse ==
    \E args \in RegisterInputs :
        LET o == Run(NewRequest("registerForCourse", args), table, today)
        IN  /\ table' = o.table
            /\ req' = o.req
            /\ pre' = table
            /\ UNCHANGED <<today, procs, served>>

cancelRegistration ==
    \E args \in CancelInputs :
        LET o == Run(NewRequest("cancelRegistration", args), table, today)
        IN  /\ table' = o.table
            /\ req' = o.req
            /\ pre' = table
            /\ UNCHANGED <<today, procs, served>>

allotCourse ==
    \E args \in AllotInputs :
        LET o == Run(NewRequest("allotCourse", args), table, today)
        IN  /\ table' = o.table
            /\ req' = o.req
            /\ pre' = table
            /\ UNCHANGED <<today, procs, served>>

getCourseRegistrations ==
    \E args \in ListInputs :
        LET o == Run(NewRequest("getCourseRegistrations", args), table, today)
        IN  /\ table' = o.table
            /\ req' = o.req
            /\ pre' = table
            /\ UNCHANGED <<today, procs, served>>

\* The date changes between calls
Midnight ==
    /\ today < MaxDay
    /\ today' = today + 1
    /\ UNCHANGED <<table, req, pre, procs, served>>

Next ==
    \/ addCourseOffering
    \/ registerForCourse
    \/ cancelRegistration
    \/ allotCourse
    \/ getCourseRegistrations
    \/ Midnight

Spec == Init /\ [][Next]_vars

(***************************************************************************)
(* Calls in flight together.  Each await of a handler yields to the other  *)
(* requests, so a call is its store calls one at a time, interleaved with  *)
(* those of the other calls; what a handler read stays in its locals.      *)
(* procs[p] is the call that connection p has in flight (or its response), *)
(* served[p] the number of calls it has sent.                              *)
(***************************************************************************)
ConcurrentAddCourseInputs ==
    {[course_name |-> <<"j">>, instructor_name |-> <<"m">>, start_date |-> MaxDay,
      min_employees |-> 0, max_employees |-> 1],
     [course_name |-> <<"j">>, instructor_name |-> <<"m">>, start_date |-> MaxDay,
      min_employees |-> MaxSeats, max_employees |-> MaxSeats]}

ConcurrentRegisterInputs ==
    {[course_id |-> c, employee_name |-> <<"a">>,
      email |-> <<"x", "@", "d", ".", "i", "o">>] : c \in CourseIds}
      \cup {[course_id |-> c, employee_name |-> <<"b">>,
              email |-> <<"y", "@", "d", ".", "i", "o">>] : c \in CourseIds}

ConcurrentCancelInputs ==
    [registration_id :
        {generateRegistrationId(n, c) : n \in {<<"a">>, <<"b">>}, c \in CourseIds}]

ConcurrentAllotInputs == [course_id : CourseIds]

\* The locals of a handler, gone when it returns
HandlerLocals == {"course", "registration", "registrations", "finalStatus"}

Returns(r) ==
    IF r.pc = "done" THEN [f \in DOMAIN r \ HandlerLocals |-> r[f]] ELSE r

CanSend(p) == procs[p].pc \in {"idle", "done"} /\ served[p] < MaxCallsEach

sendAddCourseOffering ==
    \E p \in Procs, args \in ConcurrentAddCourseInputs :
        LET o == Step(NewRequest("addCourseOffering", args), table, today)
        IN  /\ CanSend(p)
            /\ table' = o.table
            /\ procs' = [procs EXCEPT ![p] = Returns(o.req)]
            /\ served' = [served EXCEPT ![p] = @ + 1]
            /\ UNCHANGED <<today, req, pre>>

sendRegisterForCourse ==
    \E p \in Procs, args \in ConcurrentRegisterInputs :
        LET o == Step(NewRequest("registerForCourse", args), table, today)
        IN  /\ CanSend(p)
            /\ table' = o.table
            /\ procs' = [procs EXCEPT ![p] = Returns(o.req)]
            /\ served' = [served EXCEPT ![p] = @ + 1]
            /\ UNCHANGED <<today, req, pre>>

sendCancelRegistration ==
    \E p \in Procs, args \in ConcurrentCancelInputs :
        LET o == Step(NewRequest("cancelRegistration", args), table, today)
        IN  /\ CanSend(p)
            /\ table' = o.table
            /\ procs' = [procs EXCEPT ![p] = Returns(o.req)]
            /\ served' = [served EXCEPT ![p] = @ + 1]
            /\ UNCHANGED <<today, req, pre>>

sendAllotCourse ==
    \E p \in Procs, args \in ConcurrentAllotInputs :
        LET o == Step(NewRequest("allotCourse", args), table, today)
        IN  /\ CanSend(p)
            /\ table' = o.table
            /\ procs' = [procs EXCEPT ![p] = Returns(o.req)]
            /\ served' = [served EXCEPT ![p] = @ + 1]
            /\ UNCHANGED <<today, req, pre>>

\* The next store call of a call in flight, with the code that follows it
resumeAfterAwait ==
    \E p \in Procs :
        /\ procs[p].pc \notin {"idle", "done"}
        /\ LET o == Step(procs[p], table, today)
           IN  /\ table' = o.table
               /\ procs' = [procs EXCEPT ![p] = Returns(o.req)]
        /\ UNCHANGED <<today, req, pre, served>>

NextConcurrent ==
    \/ sendAddCourseOffering
    \/ sendRegisterForCourse
    \/ sendCancelRegistration
    \/ sendAllotCourse
    \/ resumeAfterAwait

SpecConcurrent == Init /\ [][NextConcurrent]_vars

(***************************************************************************)
(* Register, cancel and allot calls in flight together on a course that    *)
(* one addCourseOffering call created beforehand.                          *)
(***************************************************************************)
InitOffered ==
    /\ \E args \in ConcurrentAddCourseInputs :
           table = Run(NewRequest("addCourseOffering", args), EmptyTable, 0).table
    /\ today = 0
    /\ req = Idle
    /\ pre = EmptyTable
    /\ procs = [p \in Procs |-> Idle]
    /\ served = [p \in Procs |-> 0]

NextRegistrations ==
    \/ sendRegisterForCourse
    \/ sendCancelRegistration
    \/ sendAllotCourse
    \/ resumeAfterAwait

SpecRegistrations == InitOffered /\ [][NextRegistrations]_vars

(***************************************************************************)
(* Calls run one at a time against a store that may refuse one store call  *)
(* of a request.                                                           *)
(***************************************************************************)
StoreOutcomes == [failAt : 0..MaxStoreCalls]

addCourseOfferingOrThrow ==
    \E args \in ConcurrentAddCourseInputs, store \in StoreOutcomes :
        LET o == Run(NewRequest("addCourseOffering", args @@ store), table, today)
        IN  /\ table' = o.table
            /\ req' = o.req
            /\ pre' = table
            /\ UNCHANGED <<today, procs, served>>

registerForCourseOrThrow ==
    \E args \in ConcurrentRegisterInputs, store \in StoreOutcomes :
        LET o == Run(NewRequest("registerForCourse", args @@ store), table, today)
        IN  /\ table' = o.table
            /\ req' = o.req
            /\ pre' = table
            /\ UNCHANGED <<today, procs, served>>

cancelRegistrationOrThrow ==
    \E args \in ConcurrentCancelInputs, store \in StoreOutcomes :
        LET o == Run(NewRequest("cancelRegistration", args @@ store), table, today)
        IN  /\ table' = o.table
            /\ req' = o.req
            /\ pre' = table
            /\ UNCHANGED <<today, procs, served>>

allotCourseOrThrow ==
    \E args \in ConcurrentAllotInputs, store \in StoreOutcomes :
        LET o == Run(NewRequest("allotCourse", args @@ store), table, today)
        IN  /\ table' = o.table
            /\ req' = o.req
            /\ pre' = table
            /\ UNCHANGED <<today, procs, served>>

NextFaults ==
    \/ addCourseOfferingOrThrow
    \/ registerForCourseOrThrow
    \/ cancelRegistrationOrThrow
    \/ allotCourseOrThrow

SpecFaults == Init /\ [][NextFaults]_vars

(***************************************************************************)
(* The identifier helpers on their own: names are drawn, the course id     *)
(* and the registration id are derived from them, and the course id is     *)
(* extracted back from the registration id.                                *)
(***************************************************************************)
RECURSIVE NamesUpTo(_, _)
NamesUpTo(chars, n) ==
    IF n = 0 THEN {}
    ELSE LET shorter == NamesUpTo(chars, n - 1)
         IN  {<<c>> : c \in chars} \cup shorter
                \cup {s \o <<c>> : s \in shorter, c \in chars}

EmployeeNames == NamesUpTo({"a", "b", "-"}, MaxNameLen)
CourseNames == NamesUpTo({"j", "-"}, MaxNameLen)
InstructorNames == {<<"m">>}

InitIdentifiers ==
    /\ table = EmptyTable
    /\ today = 0
    /\ pre = EmptyTable
    /\ procs = [p \in Procs |-> Idle]
    /\ served = [p \in Procs |-> 0]
    /\ req \in {[op |-> "identifiers", pc |-> "start", employee_name |-> n,
                  course_name |-> c, instructor_name |-> i] :
                    n \in EmployeeNames, c \in CourseNames, i \in InstructorNames}

deriveIdentifiers ==
    /\ req.op = "identifiers"
    /\ req.pc = "start"
    /\ LET course_id == generateCourseId(req.course_name, req.instructor_name)
           registration_id == generateRegistrationId(req.employee_name, course_id)
       IN  req' = Set(req, [pc |-> "done",
                            course_id |-> course_id,
                            registration_id |-> registration_id,
                            extracted |->
                                extractCourseIdFromRegistration(registration_id)])
    /\ UNCHANGED <<table, today, pre, procs, served>>

NextIdentifiers == deriveIdentifiers

SpecIdentifiers == InitIdentifiers /\ [][NextIdentifiers]_vars

(***************************************************************************)
(* Calls of the five handlers, one after the other, against a store whose  *)
(* every call eventually returns or fails: the router calls the handler of *)
(* a request, and each store call the handler awaits is eventually         *)
(* answered or refused.                                                    *)
(***************************************************************************)
RoutedRequests ==
    {NewRequest("addCourseOffering", args) : args \in ConcurrentAddCourseInputs}
      \cup {NewRequest("registerForCourse", args) : args \in ConcurrentRegisterInputs}
      \cup {NewRequest("cancelRegistration", args) : args \in ConcurrentCancelInputs}
      \cup {NewRequest("allotCourse", args) : args \in ConcurrentAllotInputs}
      \cup {NewRequest("getCourseRegistrations", args) : args \in ConcurrentAllotInputs}

\* What the code from r's position to its next await does: the handler's
\* step when the store answers its call, and the catch block when the store
\* call it makes throws
StepOrThrow(r, t, now) ==
    LET o == HandlerStep(r, t, now)
    IN  IF o.req.reads + o.req.writes > r.reads + r.writes
        THEN {o, StoreRefusal(r, o, t)}
        ELSE {o}

\* The router calls the handler of a request, which runs to its second
\* await (or to its return)
routeRequest ==
    \E r \in RoutedRequests :
        \E o \in StepOrThrow(r, table, today) :
            /\ req.pc \in {"idle", "done"}
            /\ table' = o.table
            /\ req' = Returns(o.req)
            /\ pre' = table
            /\ UNCHANGED <<today, procs, served>>

\* The store answers or refuses the call the handler awaits; the handler
\* runs on to its next await, or to its return
storeAnswers ==
    /\ req.pc \notin {"idle", "done"}
    /\ \E o \in StepOrThrow(req, table, today) :
           /\ table' = o.table
           /\ req' = Returns(o.req)
    /\ UNCHANGED <<today, pre, procs, served>>

NextRouted ==
    \/ routeRequest
    \/ storeAnswers

SpecRouted == Init /\ [][NextRouted]_vars /\ WF_vars(storeAnswers)

(***************************************************************************)
(* Register, cancel and allot calls, one after the other, on two courses   *)
(* that addCourseOffering calls created beforehand.                        *)
(***************************************************************************)
CourseJM ==
    [course_name |-> <<"j">>, instructor_name |-> <<"m">>, start_date |-> MaxDay,
     min_employees |-> 0, max_employees |-> MaxSeats]

\* A course whose name is the word OFFERING
CourseOfferingJM ==
    [course_name |-> <<"OFFERING">>, instructor_name |-> <<"j", "-", "m">>,
     start_date |-> MaxDay, min_employees |-> 0, max_employees |-> MaxSeats]

OfferedCourseIds ==
    {generateCourseId(c.course_name, c.instructor_name) :
         c \in {CourseJM, CourseOfferingJM}}

InitCourses ==
    /\ LET t1 == Run(NewRequest("addCourseOffering", CourseJM), EmptyTable, 0).table
       IN  table = Run(NewRequest("addCourseOffering", CourseOfferingJM), t1, 0).table
    /\ today = 0
    /\ req = Idle
    /\ pre = EmptyTable
    /\ procs = [p \in Procs |-> Idle]
    /\ served = [p \in Procs |-> 0]

CoursesEmployeeNames == {<<"a">>, <<"a", "-", "OFFERING">>}

CoursesRegisterInputs ==
    [course_id : OfferedCourseIds, employee_name : CoursesEmployeeNames,
     email : {<<"x", "@", "d", ".", "i", "o">>, <<"y", "@", "d", ".", "i", "o">>}]

CoursesCancelInputs ==
    [registration_id :
        {generateRegistrationId(n, c) : n \in CoursesEmployeeNames,
                                        c \in OfferedCourseIds}]

registerOnACourse ==
    \E args \in CoursesRegisterInputs :
        LET o == Run(NewRequest("registerForCourse", args), table, today)
        IN  /\ table' = o.table
            /\ req' = o.req
            /\ pre' = table
            /\ UNCHANGED <<today, procs, served>>

cancelOnACourse ==
    \E args \in CoursesCancelInputs :
        LET o == Run(NewRequest("cancelRegistration", args), table, today)
        IN  /\ table' = o.table
            /\ req' = o.req
            /\ pre' = table
            /\ UNCHANGED <<today, procs, served>>

allotACourse ==
    \E args \in [course_id : OfferedCourseIds] :
        LET o == Run(NewRequest("allotCourse", args), table, today)
        IN  /\ table' = o.table
            /\ req' = o.req
            /\ pre' = table
            /\ UNCHANGED <<today, procs, served>>

NextCourses ==
    \/ registerOnACourse
    \/ cancelOnACourse
    \/ allotACourse

SpecCourses == InitCourses /\ [][NextCourses]_vars

(***************************************************************************)
(* addCourseOffering calls, one after the other, with course and           *)
(* instructor names that may hold a hyphen or differ in case only.         *)
(***************************************************************************)
MaxOfferings == 2

OfferingNames ==
    {n \in CourseNames : Head(n) # "-" /\ n[Len(n)] # "-"} \cup {<<"J">>}

OfferingInputs ==
    [course_name : OfferingNames, instructor_name : OfferingNames,
     start_date : {MaxDay}, min_employees : {0}, max_employees : {MaxSeats}]

offerCourse ==
    \E args \in OfferingInputs :
        LET o == Run(NewRequest("addCourseOffering", args), table, today)
        IN  /\ Cardinality({k \in DOMAIN table : k[2] = METADATA}) < MaxOfferings
            /\ table' = o.table
            /\ req' = o.req
            /\ pre' = table
            /\ UNCHANGED <<today, procs, served>>

NextOfferings == offerCourse

SpecOfferings == Init /\ [][NextOfferings]_vars

(***************************************************************************)
(* Vocabulary of the properties.                                           *)
(***************************************************************************)
CourseKeys(t) == {k \in DOMAIN t : k[2] = METADATA}

RegKeysOf(t, course_id) ==
    {k \in DOMAIN t : k[1] = CoursePK(course_id) /\ startsWith(k[2], <<"REG#">>)}

RegKeys(t) == {k \in DOMAIN t : startsWith(k[2], <<"REG#">>)}

EmployeeKeys(t) == {k \in DOMAIN t : startsWith(k[1], <<"EMPLOYEE#">>)}

\* The course id a key's PK or SK "COURSE#<course_id>" names
CourseIdOf(pkOrSk) == Tail(pkOrSk)

Returned(op) == req.op = op /\ req.pc = "done"

(***************************************************************************)
(* C1: after any sequence of createOffering, register and cancel calls     *)
(* run one at a time, every course's current_count is the number of        *)
(* Registration-by-course rows in its partition.                           *)
(***************************************************************************)
C1_CountEqualsRows ==
    \A k \in CourseKeys(table) :
        table[k].current_count
            = Cardinality(RegKeysOf(table, CourseIdOf(k[1])))

(***************************************************************************)
(* C2: the by-course row and the by-employee row of one registration       *)
(* always carry the same status.                                           *)
(***************************************************************************)
C2_CopiesAgreeOnStatus ==
    \A k \in RegKeys(table) :
        LET byCourse == table[k]
            ek == EmployeeKey(byCourse.email, byCourse.course_id)
        IN  (ek \in DOMAIN table
               /\ table[ek].registration_id = byCourse.registration_id)
                => table[ek].status = byCourse.status

(***************************************************************************)
(* C3: the two copies exist together: every by-course row has the          *)
(* by-employee row of its stored email and course, every by-employee row   *)
(* has a by-course row of its course that stores its email, one to one.    *)
(***************************************************************************)
C3_CopiesExistTogether ==
    /\ \A k \in RegKeys(table) :
           EmployeeKey(table[k].email, CourseIdOf(k[1])) \in DOMAIN table
    /\ \A ek \in EmployeeKeys(table) :
           Cardinality({k \in RegKeysOf(table, CourseIdOf(ek[2])) :
                          EmployeePK(table[k].email) = ek[1]}) = 1

(***************************************************************************)
(* C4 as stated: whenever the by-employee row of (email, course) exists,   *)
(* emails compared without case, a register for that email and course      *)
(* fails with 'Already registered' and changes no row.                     *)
(***************************************************************************)
C4_DuplicateAlwaysRejected ==
    (/\ Returned("registerForCourse")
     /\ RegisterInputValid(req)
     /\ EmployeeKey(trim(req.email), req.course_id) \in DOMAIN pre)
        => (req.res.message = "Already registered" /\ table = pre)

(***************************************************************************)
(* C4 amended: with the by-employee row of (email, course) present, a      *)
(* well-formed register for that email and course fails and changes no     *)
(* row; the failure is 'Already registered' while the course is not yet    *)
(* allotted, and 'Course canceled' or 'Course already allotted' once it    *)
(* is.  Hence a register succeeds only when no such row exists.            *)
(***************************************************************************)
C4_DuplicateRejectedBeforeAllot ==
    (Returned("registerForCourse") /\ RegisterInputValid(req)) =>
        LET ek == EmployeeKey(trim(req.email), req.course_id)
            ck == CourseKey(req.course_id)
        IN  /\ (ek \in DOMAIN pre) =>
                  /\ req.res.status = 400
                  /\ table = pre
                  /\ req.res.message =
                         (IF ~pre[ck].is_allotted THEN "Already registered"
                          ELSE IF pre[ck].course_status = "COURSE_CANCELED"
                          THEN "Course canceled"
                          ELSE "Course already allotted")
            /\ (req.res.status = 200) => ek \notin DOMAIN pre

\* A register refused as duplicate although the stored email differs in case
C4_Witness ==
    /\ Returned("registerForCourse")
    /\ req.res.message = "Already registered"
    /\ table = pre
    /\ \E k \in RegKeysOf(pre, req.course_id) :
           /\ pre[k].email # req.email
           /\ toUpperCase(pre[k].email) = toUpperCase(req.email)

(***************************************************************************)
(* C5: a successful allot of a course with n by-course rows and min_seats  *)
(* m leaves is_allotted = true, course_status = CONFIRMED if n >= m and    *)
(* COURSE_CANCELED otherwise, and that status on every by-course row.      *)
(***************************************************************************)
C5_AllotStatusFollowsCount ==
    (Returned("allotCourse") /\ req.res.status = 200) =>
        LET ck == CourseKey(req.course_id)
            n == Cardinality(RegKeysOf(pre, req.course_id))
            final == IF n >= pre[ck].min_employees
                     THEN "CONFIRMED" ELSE "COURSE_CANCELED"
        IN  /\ table[ck].is_allotted
            /\ table[ck].course_status = final
            /\ \A k \in RegKeysOf(table, req.course_id) : table[k].status = final

(***************************************************************************)
(* C6: what an allot of a course without by-course rows does.              *)
(***************************************************************************)
\* One write that sets is_allotted and COURSE_CANCELED on the course row and
\* touches nothing else, answered with an empty registration list
C6_EmptyAllotCommitted ==
    LET ck == CourseKey(req.course_id)
    IN  /\ req.res.status = 200
        /\ req.writes = 1
        /\ DOMAIN table = DOMAIN pre
        /\ \A k \in DOMAIN pre \ {ck} : table[k] = pre[k]
        /\ table[ck].is_allotted = TRUE
        /\ table[ck].course_status = "COURSE_CANCELED"
        /\ \A a \in DOMAIN pre[ck] \ {"is_allotted", "course_status"} :
               table[ck][a] = pre[ck][a]
        /\ req.res.data.registrations = <<>>

C6_EmptyUnallottedCourse ==
    /\ Returned("allotCourse")
    /\ CourseKey(req.course_id) \in DOMAIN pre
    /\ ~pre[CourseKey(req.course_id)].is_allotted
    /\ RegKeysOf(pre, req.course_id) = {}

\* C6 as stated: every allot of an existing, un-allotted course without
\* by-course rows commits that write
C6_EmptyAllotAlwaysCommits ==
    C6_EmptyUnallottedCourse => C6_EmptyAllotCommitted

\* C6 amended: an allot of an existing, un-allotted course without by-course
\* rows, called no later than the course's start date, commits that write;
\* called after the start date it fails with COURSE_ALLOT_DATE_ERROR and
\* writes nothing
C6_EmptyAllotCommitsUntilStartDate ==
    C6_EmptyUnallottedCourse =>
        IF req.currentDate <= pre[CourseKey(req.course_id)].start_date
        THEN C6_EmptyAllotCommitted
        ELSE /\ req.res.message = "COURSE_ALLOT_DATE_ERROR"
             /\ req.writes = 0
             /\ table = pre

\* The allot of an empty course with min_employees = 0
C6_Witness ==
    /\ C6_EmptyUnallottedCourse
    /\ pre[CourseKey(req.course_id)].min_employees = 0
    /\ req.res.status = 200
    /\ table[CourseKey(req.course_id)].course_status = "COURSE_CANCELED"

(***************************************************************************)
(* C7: a well-formed register on an existing, un-allotted course whose     *)
(* current_count >= max_employees, by an email without a by-employee row   *)
(* for it, fails with COURSE_FULL_ERROR and changes no row; so no          *)
(* register succeeds on a course with max_employees = 0.                   *)
(***************************************************************************)
C7_FullCourseRejects ==
    (Returned("registerForCourse") /\ RegisterInputValid(req)) =>
        LET ek == EmployeeKey(trim(req.email), req.course_id)
            ck == CourseKey(req.course_id)
        IN  /\ (/\ ck \in DOMAIN pre
                /\ ~pre[ck].is_allotted
                /\ pre[ck].current_count >= pre[ck].max_employees
                /\ ek \notin DOMAIN pre)
                   => /\ req.res.status = 400
                      /\ req.res.message = "COURSE_FULL_ERROR"
                      /\ table = pre
            /\ (req.res.status = 200) => pre[ck].max_employees > 0

\* A register refused on a course filled to its (positive) max_employees
C7_Witness ==
    /\ Returned("registerForCourse")
    /\ req.res.message = "COURSE_FULL_ERROR"
    /\ pre[CourseKey(req.course_id)].max_employees > 0
    /\ pre[CourseKey(req.course_id)].current_count
           = pre[CourseKey(req.course_id)].max_employees

(***************************************************************************)
(* C8: an allot of a course that is already allotted fails with HTTP 400   *)
(* (already allotted, or start date passed) and changes no row.            *)
(***************************************************************************)
C8_SecondAllotRefused ==
    (/\ Returned("allotCourse")
     /\ CourseKey(req.course_id) \in DOMAIN pre
     /\ pre[CourseKey(req.course_id)].is_allotted)
        => /\ req.res.status = 400
           /\ req.res.message \in {"Course already allotted", "COURSE_ALLOT_DATE_ERROR"}
           /\ req.writes = 0
           /\ table = pre

\* A second allot of a canceled course that kept its registrations
C8_Witness ==
    /\ Returned("allotCourse")
    /\ req.res.message = "Course already allotted"
    /\ pre[CourseKey(req.course_id)].course_status = "COURSE_CANCELED"
    /\ RegKeysOf(pre, req.course_id) # {}

(***************************************************************************)
(* C9: a cancel of an existing registration whose course is allotted       *)
(* answers 200 with CANCEL_REJECTED and changes no row.                    *)
(***************************************************************************)
C9_CancelAfterAllotRejected ==
    (/\ Returned("cancelRegistration")
     /\ \E k \in RegKeys(pre) :
            /\ pre[k].registration_id = req.registration_id
            /\ pre[CourseKey(pre[k].course_id)].is_allotted)
        => /\ req.res.status = 200
           /\ req.res.data.status = "CANCEL_REJECTED"
           /\ table = pre

(***************************************************************************)
(* C10: a successful register followed by the cancel of the returned       *)
(* registration_id answers CANCEL_ACCEPTED and leaves the table as it was  *)
(* before the register.                                                    *)
(***************************************************************************)
C10_RegisterCancelRoundTrip ==
    [][(/\ req.op = "registerForCourse"
        /\ req.pc = "done"
        /\ req.res.status = 200
        /\ req'.op = "cancelRegistration"
        /\ req'.registration_id = req.res.data.registration_id)
           => /\ req'.res.status = 200
              /\ req'.res.data.status = "CANCEL_ACCEPTED"
              /\ table' = pre]_vars

(***************************************************************************)
(* C11: with calls run one at a time, every course row keeps               *)
(* 0 <= current_count <= max_employees and 0 <= min_employees <=           *)
(* max_employees.                                                          *)
(***************************************************************************)
C11_SeatBounds ==
    \A k \in CourseKeys(table) :
        /\ 0 <= table[k].current_count
        /\ table[k].current_count <= table[k].max_employees
        /\ 0 <= table[k].min_employees
        /\ table[k].min_employees <= table[k].max_employees

\* A register that filled a course created with min_employees = max_employees
C11_Witness ==
    /\ Returned("registerForCourse")
    /\ req.res.status = 200
    /\ LET course == table[CourseKey(req.course_id)]
       IN  /\ course.current_count = course.max_employees
           /\ course.min_employees = course.max_employees

(***************************************************************************)
(* C12: with calls in flight together, once a course row has               *)
(* is_allotted = true no later write sets it back to false, changes its    *)
(* course_status, or puts its current_count back to 0 (the counter then    *)
(* moves by the one seat of a registration or cancellation at most).       *)
(***************************************************************************)
C12_AllotmentNeverReverted ==
    [][\A k \in CourseKeys(table) :
          Attr(table[k], "is_allotted", FALSE) =>
              /\ k \in DOMAIN table'
              /\ Attr(table'[k], "is_allotted", FALSE)
              /\ Attr(table'[k], "course_status", "undefined")
                     = Attr(table[k], "course_status", "undefined")
              /\ table'[k].current_count \in
                     {table[k].current_count - 1, table[k].current_count,
                      table[k].current_count + 1}]_vars

(***************************************************************************)
(* C13: with register, cancel and allot calls in flight together, a        *)
(* by-course row in status ACCEPTED stays, becomes CONFIRMED or            *)
(* COURSE_CANCELED, or is deleted; a row in status CONFIRMED or            *)
(* COURSE_CANCELED keeps its status and is never deleted.                  *)
(***************************************************************************)
C13_RegistrationStatusMachine ==
    [][\A k \in RegKeys(table) :
          LET status == Attr(table[k], "status", "undefined")
          IN  /\ (status = "ACCEPTED" /\ k \in DOMAIN table') =>
                    Attr(table'[k], "status", "undefined")
                        \in {"ACCEPTED", "CONFIRMED", "COURSE_CANCELED"}
              /\ (status \in {"CONFIRMED", "COURSE_CANCELED"}) =>
                    /\ k \in DOMAIN table'
                    /\ Attr(table'[k], "status", "undefined") = status]_vars

(***************************************************************************)
(* C14: with register, cancel and allot calls in flight together, every    *)
(* reachable state has each course's current_count equal to the number of  *)
(* by-course rows of that course.                                          *)
(***************************************************************************)
C14_CountEqualsRowsInFlight ==
    \A k \in CourseKeys(table) :
        Cardinality(QueryRegistrations(table, CourseIdOf(k[1])))
            = Attr(table[k], "current_count", 0)

(***************************************************************************)
(* C15: the write of register, of cancel and of allot is one               *)
(* all-or-nothing transaction.  A call that wrote shows all of its         *)
(* effects and changed no other row; a call whose store call was refused   *)
(* answers 500, issued no store call after the refused one, and left       *)
(* every row as it found it.                                               *)
(***************************************************************************)
C15_StoreRefused ==
    req.failAt # 0 /\ req.failAt <= req.reads + req.writes

C15_RegisterCommitted ==
    LET ck == CourseKey(req.course_id)
        rk == RegKey(req.course_id, req.registration_id)
        ek == EmployeeKey(trim(req.email), req.course_id)
    IN  /\ DOMAIN table = DOMAIN pre \cup {rk, ek}
        /\ table[rk].status = "ACCEPTED"
        /\ table[ek].status = "ACCEPTED"
        /\ table[ck].current_count = pre[ck].current_count + 1
        /\ \A k \in DOMAIN pre \ {ck, rk, ek} : table[k] = pre[k]

C15_CancelCommitted ==
    LET ck == CourseKey(req.course_id)
        rk == RegKey(req.course_id, req.registration_id)
        ek == EmployeeKey(pre[rk].email, req.course_id)
    IN  /\ DOMAIN table = DOMAIN pre \ {rk, ek}
        /\ table[ck].current_count = pre[ck].current_count - 1
        /\ \A k \in DOMAIN table \ {ck} : table[k] = pre[k]

C15_AllotCommitted ==
    LET ck == CourseKey(req.course_id)
    IN  /\ DOMAIN table = DOMAIN pre
        /\ table[ck].is_allotted
        /\ table[ck].course_status \in {"CONFIRMED", "COURSE_CANCELED"}
        /\ \A k \in RegKeysOf(pre, req.course_id) :
               table[k].status = table[ck].course_status
        /\ \A k \in DOMAIN pre \ (RegKeysOf(pre, req.course_id) \cup {ck}) :
               table[k] = pre[k]

C15_TransactionsAllOrNothing ==
    (req.pc = "done"
       /\ req.op \in {"registerForCourse", "cancelRegistration", "allotCourse"}) =>
        /\ req.writes <= 1
        /\ C15_StoreRefused =>
               /\ req.res.status = 500
               /\ req.reads + req.writes = req.failAt
               /\ table = pre
        /\ req.writes = 0 => table = pre
        /\ (req.writes = 1 /\ ~C15_StoreRefused) =>
               /\ req.res.status = 200
               /\ CASE req.op = "registerForCourse" -> C15_RegisterCommitted
                    [] req.op = "cancelRegistration" -> C15_CancelCommitted
                    [] req.op = "allotCourse" -> C15_AllotCommitted

\* An allot whose transaction over two registrations the store refused
C15_Witness ==
    /\ Returned("allotCourse")
    /\ req.writes = 1
    /\ C15_StoreRefused
    /\ req.res.status = 500
    /\ Cardinality(RegKeysOf(table, req.course_id)) = 2
    /\ \A k \in RegKeysOf(table, req.course_id) : table[k].status = "ACCEPTED"

(***************************************************************************)
(* C16: with calls run one at a time, a well-formed createOffering whose   *)
(* derived course_id already has a course row fails with                   *)
(* DUPLICATE_COURSE_ERROR and changes no row; otherwise it writes exactly  *)
(* one row, the course row, with current_count = 0, is_allotted = false    *)
(* and no course_status, and returns the course_id.                        *)
(***************************************************************************)
C16_CreateOffering ==
    (/\ Returned("addCourseOffering")
     /\ AddCourseFieldsValid(req)
     /\ ~AddCourseStartDatePast(req, req.currentDate)) =>
        LET course_id == <<"OFFERING", "-">> \o toUpperCase(trim(req.course_name))
                             \o <<"-">> \o toUpperCase(trim(req.instructor_name))
            ck == CourseKey(course_id)
        IN  IF ck \in DOMAIN pre
            THEN /\ req.res.status = 400
                 /\ req.res.message = "DUPLICATE_COURSE_ERROR"
                 /\ req.writes = 0
                 /\ table = pre
            ELSE /\ req.res.status = 200
                 /\ req.res.data.course_id = course_id
                 /\ req.writes = 1
                 /\ DOMAIN table = DOMAIN pre \cup {ck}
                 /\ \A k \in DOMAIN pre : table[k] = pre[k]
                 /\ table[ck].current_count = 0
                 /\ table[ck].is_allotted = FALSE
                 /\ "course_status" \notin DOMAIN table[ck]
                 /\ table[ck].min_employees = req.min_employees
                 /\ table[ck].max_employees = req.max_employees
                 /\ table[ck].start_date = req.start_date

\* A createOffering refused as duplicate of a course that has a registration
C16_Witness ==
    /\ Returned("addCourseOffering")
    /\ req.res.message = "DUPLICATE_COURSE_ERROR"
    /\ table = pre
    /\ table[CourseKey(<<"OFFERING", "-", "J", "-", "M">>)].current_count > 0

(***************************************************************************)
(* C17 as stated: an allot succeeds only when the current date is          *)
(* strictly before the course's start date; on the start date itself or    *)
(* later it fails with COURSE_ALLOT_DATE_ERROR and changes no row.         *)
(***************************************************************************)
C17_AllotOnlyBeforeStartDate ==
    (Returned("allotCourse") /\ CourseKey(req.course_id) \in DOMAIN pre) =>
        LET course == pre[CourseKey(req.course_id)]
        IN  /\ (req.res.status = 200) => req.currentDate < course.start_date
            /\ (req.currentDate >= course.start_date) =>
                   /\ req.res.message = "COURSE_ALLOT_DATE_ERROR"
                   /\ table = pre

(***************************************************************************)
(* C17 amended: an allot succeeds only when the current date is not after  *)
(* the course's start date.  After the start date it fails with            *)
(* COURSE_ALLOT_DATE_ERROR and changes no row; on the start date itself,   *)
(* as on any earlier day, the allot of a course not yet allotted succeeds. *)
(***************************************************************************)
C17_AllotNotAfterStartDate ==
    (Returned("allotCourse") /\ CourseKey(req.course_id) \in DOMAIN pre) =>
        LET course == pre[CourseKey(req.course_id)]
        IN  /\ (req.res.status = 200) => req.currentDate <= course.start_date
            /\ (req.currentDate > course.start_date) =>
                   /\ req.res.status = 400
                   /\ req.res.message = "COURSE_ALLOT_DATE_ERROR"
                   /\ req.writes = 0
                   /\ table = pre
            /\ (req.currentDate <= course.start_date /\ ~course.is_allotted) =>
                   /\ req.res.status = 200
                   /\ table[CourseKey(req.course_id)].is_allotted

\* An allot refused the day after the start date of a course that has a
\* registration and is not allotted
C17_Witness ==
    /\ Returned("allotCourse")
    /\ req.res.message = "COURSE_ALLOT_DATE_ERROR"
    /\ req.currentDate = pre[CourseKey(req.course_id)].start_date + 1
    /\ ~pre[CourseKey(req.course_id)].is_allotted
    /\ RegKeysOf(pre, req.course_id) # {}
    /\ table = pre

(***************************************************************************)
(* C18: a createOffering, register, allot, cancel or list call that        *)
(* returns INPUT_DATA_ERROR issued no store read and no store write.       *)
(***************************************************************************)
C18_ValidationTouchesNoStore ==
    (req.pc = "done" /\ req.res.message = "INPUT_DATA_ERROR") =>
        /\ req.res.status = 400
        /\ req.reads = 0
        /\ req.writes = 0
        /\ table = pre

\* A list call with a malformed course id, refused while the table holds a
\* course and a registration
C18_Witness ==
    /\ Returned("getCourseRegistrations")
    /\ req.res.message = "INPUT_DATA_ERROR"
    /\ ~isValidCourseIdFormat(req.course_id)
    /\ RegKeys(table) # {}

(***************************************************************************)
(* C19: with calls run one at a time, a register or an allot that passes   *)
(* validation and names a course_id without course row, and a cancel that  *)
(* passes validation and names a registration_id whose by-course row, or   *)
(* whose course row, is absent, each answer 404 and issue no write.        *)
(***************************************************************************)
C19_AbsentRowNotFound ==
    LET notFound == /\ req.res.status = 404
                    /\ req.writes = 0
                    /\ table = pre
    IN  /\ (/\ Returned("registerForCourse")
             /\ RegisterInputValid(req)
             /\ CourseKey(req.course_id) \notin DOMAIN pre) => notFound
        /\ (/\ Returned("allotCourse")
             /\ isValidCourseIdFormat(req.course_id)
             /\ CourseKey(req.course_id) \notin DOMAIN pre) => notFound
        /\ (/\ Returned("cancelRegistration")
             /\ isValidRegistrationIdFormat(req.registration_id)
             /\ LET course_id == extractCourseIdFromRegistration(req.registration_id)
                IN  \/ RegKey(course_id, req.registration_id) \notin DOMAIN pre
                    \/ CourseKey(course_id) \notin DOMAIN pre) => notFound

\* The cancel of a registration that an earlier cancel removed: the course
\* exists, the by-course row does not
C19_Witness ==
    /\ Returned("cancelRegistration")
    /\ req.res.status = 404
    /\ req.res.message = "Registration not found"
    /\ CourseKey(req.course_id) \in DOMAIN pre
    /\ RegKeys(pre) # {}
    /\ table = pre

(***************************************************************************)
(* C20: for every employee name n and every course id c that               *)
(* generateCourseId returns, hyphens in the names allowed,                 *)
(* extractCourseIdFromRegistration(generateRegistrationId(n, c)) = c.      *)
(***************************************************************************)
C20_CourseIdRecovered ==
    (req.op = "identifiers" /\ req.pc = "done") => req.extracted = req.course_id

C22_AllotChangesStatusOnly ==
    Returned("allotCourse") =>
        /\ DOMAIN table = DOMAIN pre
        /\ \A k \in CourseKeys(pre) :
               /\ table[k].current_count = pre[k].current_count
               /\ table[k].min_employees = pre[k].min_employees
               /\ table[k].max_employees = pre[k].max_employees
        /\ \A k \in DOMAIN pre :
               /\ DOMAIN pre[k] \subseteq DOMAIN table[k]
               /\ DOMAIN table[k] \ DOMAIN pre[k] \subseteq {"course_status"}
               /\ \A a \in DOMAIN pre[k] \ {"status", "is_allotted", "course_status"} :
                      table[k][a] = pre[k][a]

\* An allot that confirmed a registration of a course whose current_count
\* differs from its number of by-course rows
C22_Witness ==
    /\ Returned("allotCourse")
    /\ req.res.status = 200
    /\ table # pre
    /\ \E k \in RegKeysOf(table, req.course_id) :
           table[k].status = "CONFIRMED" /\ pre[k].status = "ACCEPTED"
    /\ table[CourseKey(req.course_id)].current_count
           # Cardinality(RegKeysOf(table, req.course_id))

(***************************************************************************)
(* C23: under any interleaving, every by-course row lies in the partition  *)
(* of an existing course row, and no step deletes a course row.            *)
(***************************************************************************)
C23_RegistrationsHaveCourse ==
    [][/\ \A k \in RegKeys(table') : <<k[1], METADATA>> \in DOMAIN table'
       /\ CourseKeys(table) \subseteq CourseKeys(table')]_vars

\* A by-course row that an allot wrote back after a cancel had deleted it
C23_Witness ==
    \E k \in RegKeys(table) :
        /\ "registration_id" \notin DOMAIN table[k]
        /\ <<k[1], METADATA>> \in DOMAIN table

(***************************************************************************)
(* C24: the capacity check of register is a read made before the write,    *)
(* not a condition of the transaction: whatever current_count is when the  *)
(* transaction commits, it adds 1 and the call returns success.  So there  *)
(* is an interleaving (C24_Witness) of two registers by different          *)
(* employees on a course with current_count = max_employees - 1 in which   *)
(* both return success and current_count ends at max_employees + 1.        *)
(***************************************************************************)
C24_RegisterCommitsWhateverTheCount ==
    [][\A p \in Procs :
          (/\ procs[p].op = "registerForCourse"
           /\ procs[p].pc = "write"
           /\ procs'[p].pc = "done") =>
              LET ck == CourseKey(procs[p].course_id)
              IN  /\ procs'[p].res.status = 200
                  /\ table'[ck].current_count = table[ck].current_count + 1]_vars

\* Both registers returned success; the course, created with room for
\* max_employees = 1, holds two by-course rows and current_count = 2
C24_Witness ==
    \E p, q \in Procs :
        /\ procs[p].op = "registerForCourse" /\ procs[p].pc = "done"
        /\ procs[q].op = "registerForCourse" /\ procs[q].pc = "done"
        /\ procs[p].res.status = 200 /\ procs[q].res.status = 200
        /\ procs[p].course_id = procs[q].course_id
        /\ toUpperCase(procs[p].email) # toUpperCase(procs[q].email)
        /\ procs[p].employee_name # procs[q].employee_name
        /\ served = [r \in Procs |-> 1]
        /\ LET course == table[CourseKey(procs[p].course_id)]
           IN  /\ course.current_count = course.max_employees + 1
               /\ Cardinality(RegKeysOf(table, procs[p].course_id))
                      = course.max_employees + 1

(***************************************************************************)
(* C25: the duplicate check of register is a read made before the write,   *)
(* not a condition of the puts: the transaction commits also when the      *)
(* by-employee row is there by now, replacing the two rows and adding 1    *)
(* to current_count.  So there is an interleaving (C25_Witness) of two     *)
(* registers with the same name, email and course in which both return     *)
(* success, current_count is incremented twice and one by-course row and   *)
(* one by-employee row exist.                                              *)
(***************************************************************************)
C25_RegisterCommitsOverExistingRows ==
    [][\A p \in Procs :
          (/\ procs[p].op = "registerForCourse"
           /\ procs[p].pc = "write"
           /\ procs'[p].pc = "done") =>
              LET rk == RegKey(procs[p].course_id, procs[p].registration_id)
                  ek == EmployeeKey(trim(procs[p].email), procs[p].course_id)
              IN  /\ procs'[p].res.status = 200
                  /\ DOMAIN table' = DOMAIN table \cup {rk, ek}
                  /\ table'[rk].status = "ACCEPTED"
                  /\ table'[ek].status = "ACCEPTED"]_vars

\* Both registers of one employee returned success: current_count = 2, one
\* by-course row, one by-employee row
C25_Witness ==
    \E p, q \in Procs :
        /\ p # q
        /\ procs[p].op = "registerForCourse" /\ procs[p].pc = "done"
        /\ procs[q].op = "registerForCourse" /\ procs[q].pc = "done"
        /\ procs[p].res.status = 200 /\ procs[q].res.status = 200
        /\ procs[p].course_id = procs[q].course_id
        /\ procs[p].email = procs[q].email
        /\ procs[p].employee_name = procs[q].employee_name
        /\ served = [r \in Procs |-> 1]
        /\ table[CourseKey(procs[p].course_id)].current_count = 2
        /\ Cardinality(RegKeysOf(table, procs[p].course_id)) = 1
        /\ Cardinality(EmployeeKeys(table)) = 1

(***************************************************************************)
(* C26: with allot calls in flight together on one course, is_allotted is  *)
(* set once: no allot write is committed on a course that is already       *)
(* allotted, and no two allot calls on the course return success.          *)
(***************************************************************************)
C26_AllottedOnce ==
    [][\A p \in Procs :
          (/\ procs[p].op = "allotCourse"
           /\ procs[p].pc = "write"
           /\ procs'[p].pc = "done"
           /\ table[CourseKey(procs[p].course_id)].is_allotted) =>
              /\ table' = table
              /\ procs'[p].res.status = 400]_vars

(***************************************************************************)
(* C27: with register, cancel and allot calls in flight together, in       *)
(* every state every by-course row of a course with is_allotted = true     *)
(* carries the course's course_status (none is left ACCEPTED, no two       *)
(* differ).                                                                *)
(***************************************************************************)
C27_AllottedRowsCarryCourseStatus ==
    \A k \in CourseKeys(table) :
        Attr(table[k], "is_allotted", FALSE) =>
            \A rk \in RegKeysOf(table, CourseIdOf(k[1])) :
                Attr(table[rk], "status", "undefined")
                    = Attr(table[k], "course_status", "undefined")

(***************************************************************************)
(* C30: with cancel calls in flight together, current_count never becomes  *)
(* negative, and a cancel transaction that commits decrements it only if   *)
(* it removes a by-course row.                                             *)
(***************************************************************************)
C30_CancelDecrementsOncePerRow ==
    [][\A p \in Procs :
          (/\ procs[p].op = "cancelRegistration"
           /\ procs[p].pc = "write"
           /\ procs'[p].pc = "done") =>
              LET ck == CourseKey(procs[p].course_id)
                  rk == RegKey(procs[p].course_id, procs[p].registration_id)
              IN  /\ table'[ck].current_count >= 0
                  /\ (table'[ck].current_count < table[ck].current_count)
                         => (rk \in DOMAIN table /\ rk \notin DOMAIN table')]_vars

(***************************************************************************)
(* C28: a register call answers with the first check that fails, in the    *)
(* order validation, course not found, course canceled, already allotted,  *)
(* already registered, course full, and a failed call writes nothing; so a *)
(* canceled allotted course answers 'Course canceled' and a registered     *)
(* employee on a full course answers 'Already registered'.                 *)
(***************************************************************************)
C28_RegisterFirstFailingCheck ==
    Returned("registerForCourse") =>
        LET ck == CourseKey(req.course_id)
            ek == <<EmployeePK(sanitizeInput(req.email)), CourseSK(req.course_id)>>
            expected ==
                IF ~RegisterInputValid(req) THEN <<400, "INPUT_DATA_ERROR">>
                ELSE IF ck \notin DOMAIN pre THEN <<404, "Course not found">>
                ELSE IF Attr(pre[ck], "course_status", "undefined") = "COURSE_CANCELED"
                THEN <<400, "Course canceled">>
                ELSE IF pre[ck].is_allotted THEN <<400, "Course already allotted">>
                ELSE IF ek \in DOMAIN pre THEN <<400, "Already registered">>
                ELSE IF pre[ck].current_count >= pre[ck].max_employees
                THEN <<400, "COURSE_FULL_ERROR">>
                ELSE <<200, "successfully registered">>
        IN  /\ <<req.res.status, req.res.message>> = expected
            /\ (req.res.status # 200) => (table = pre /\ req.writes = 0)

C28_Witness ==
    /\ Returned("registerForCourse")
    /\ req.res.message = "Already registered"
    /\ pre[CourseKey(req.course_id)].current_count
           >= pre[CourseKey(req.course_id)].max_employees
    /\ table = pre

(***************************************************************************)
(* C29: every call of createOffering, register, allot, cancel or list      *)
(* sends one structured result: a call has sent its result exactly when    *)
(* its handler has returned, the result carries a status, a message and    *)
(* data, and, every store call being eventually answered, every call that  *)
(* was started eventually returns.                                         *)
(***************************************************************************)
C29_ResultSent ==
    /\ "res" \in DOMAIN req
    /\ req.res.status \in {200, 400, 404, 500}
    /\ req.res.data.kind \in {"success", "failure"}

C29_OneResultPerCall ==
    /\ []((req.pc = "done") => C29_ResultSent)
    /\ []((req.pc # "done") => ("res" \notin DOMAIN req))
    /\ (req.pc \notin {"idle", "done"}) ~> (req.pc = "done")

C29_Witness ==
    /\ req.op = "cancelRegistration"
    /\ req.pc = "done"
    /\ req.res.status = 500
    /\ req.writes = 1
    /\ RegKey(req.course_id, req.registration_id) \in DOMAIN table

(***************************************************************************)
(* C31: with calls made one after the other, an allot that succeeds        *)
(* decides CONFIRMED exactly when the current_count of the course row it   *)
(* read is at least min_employees.                                         *)
(***************************************************************************)
C31_AllotDecidesByCount ==
    (Returned("allotCourse") /\ req.res.status = 200) =>
        LET course == pre[CourseKey(req.course_id)]
        IN  (req.res.message = "successfully allotted course to registered employees")
                <=> (course.current_count >= course.min_employees)

(***************************************************************************)
(* C32: what a successful allot reports is what it stored: the response    *)
(* says the course was canceled exactly when the course_status of the      *)
(* course row is COURSE_CANCELED after the call, and the status of each    *)
(* returned entry is the status of that registration's by-course row.      *)
(***************************************************************************)
C32_AllotReportsWhatItStored ==
    (Returned("allotCourse") /\ req.res.status = 200) =>
        LET entries == req.res.data.registrations
        IN  /\ (req.res.message = "Course canceled - minimum registrations not met")
                   <=> (table[CourseKey(req.course_id)].course_status = "COURSE_CANCELED")
            /\ \A n \in DOMAIN entries :
                   table[RegKey(req.course_id, entries[n].registration_id)].status
                       = entries[n].status

(***************************************************************************)
(* C33: with calls made one after the other, a register that fails with    *)
(* 'Already registered' found a real registration: the course has a        *)
(* by-course row whose stored email is the email of the call (compared     *)
(* as the duplicate key compares it, upper-cased).                         *)
(***************************************************************************)
C33_DuplicateGuardHasRegistration ==
    (Returned("registerForCourse") /\ req.res.message = "Already registered") =>
        \E rk \in RegKeysOf(pre, req.course_id) :
            EmployeePK(pre[rk].email) = EmployeePK(sanitizeInput(req.email))

(***************************************************************************)
(* C34: with allot and cancel calls in flight together, allot creates no   *)
(* registration: every by-course row in the table carries the              *)
(* registration_id, employee_name and email its register transaction       *)
(* wrote, and the commit of an allot adds no by-course row.                *)
(***************************************************************************)
C34_AllotCreatesNoRegistration ==
    [][\A p \in Procs :
          (/\ procs[p].op = "allotCourse"
           /\ procs[p].pc = "write"
           /\ procs'[p].pc = "done") =>
              /\ RegKeys(table') \subseteq RegKeys(table)
              /\ \A rk \in RegKeys(table') :
                     {"registration_id", "employee_name", "email"}
                         \subseteq DOMAIN table'[rk]]_vars

(***************************************************************************)
(* C35: a register, cancel or allot call on course A leaves every row of   *)
(* every other course unchanged: its course row, its by-course rows and    *)
(* the by-employee rows whose sort key names it.  A register or an allot   *)
(* is on the course of its course_id; a cancel is on the course whose      *)
(* partition holds the registration it names.                              *)
(***************************************************************************)
C35_RowsOfCourse(t, c) ==
    {k \in DOMAIN t : k[1] = CoursePK(c) \/ k[2] = CourseSK(c)}

C35_CoursesOfCall ==
    IF req.op = "cancelRegistration"
    THEN {c \in OfferedCourseIds : RegKey(c, req.registration_id) \in DOMAIN pre}
    ELSE {req.course_id}

C35_OtherCoursesUnchanged ==
    (req.pc = "done") =>
        \A a \in C35_CoursesOfCall : \A b \in OfferedCourseIds \ {a} :
            /\ C35_RowsOfCourse(table, b) = C35_RowsOfCourse(pre, b)
            /\ \A k \in C35_RowsOfCourse(pre, b) : table[k] = pre[k]

C37_DuplicateOnlyForSameNames ==
    (Returned("addCourseOffering") /\ req.res.message = "DUPLICATE_COURSE_ERROR") =>
        \E k \in CourseKeys(pre) :
            /\ toUpperCase(pre[k].course_name) = toUpperCase(trim(req.course_name))
            /\ toUpperCase(pre[k].instructor_name)
                   = toUpperCase(trim(req.instructor_name))

====
